---- MODULE Spec2Model ----
(***************************************************************************)
(* Model of yt_views_sum.py: the view-count parser, the card extractor,    *)
(* the scroll-and-collect convergence loop and main's browser handling.    *)
(* Text is modelled as sequences of one-character strings, a Python dict   *)
(* as a sequence of [url, views] entries in insertion order.               *)
(***************************************************************************)
EXTENDS Integers, Sequences, FiniteSets, TLC

VARIABLES
    pc,           \* position of main / of the pass under check
    max_scrolls,  \* args.max_scrolls
    stable_rounds,\* args.stable_rounds
    top,          \* args.top
    browser,      \* "none", "open" or "closed"
    page,         \* the DOM snapshot read by the latest extraction pass
    batch,        \* the dict returned by the latest extract_video_cards
    all_results,  \* scroll_and_collect's running dict
    stable,       \* scroll_and_collect's stable counter
    n,            \* number of loop iterations of scroll_and_collect started
    progress,     \* the progress lines printed, one per round
    scrolls,      \* number of page.evaluate(scrollTo) calls issued
    pauses,       \* number of time.sleep(scroll_pause) calls issued
    extractions,  \* number of extract_video_cards calls started
    report,       \* the printed summary, <<>> while nothing is printed
    notice,       \* TRUE once the "did not load" message is printed
    feed,         \* card lists a scripted page serves next, in order
    parse_arg,    \* the argument of the parse_view_count call under check
    parsed        \* what that call returned, None before it and for None

vars == <<pc, max_scrolls, stable_rounds, top, browser, page, batch,
          all_results, stable, n, progress, scrolls, pauses, extractions,
          report, notice, feed, parse_arg, parsed>>

-----------------------------------------------------------------------------
(* Bounds of the model.                                                    *)

MaxRounds == 6
MaxStable == 3
MaxTop == 2
MaxCards == 2

-----------------------------------------------------------------------------
(* Characters and strings.                                                 *)

DigitChars == <<"0", "1", "2", "3", "4", "5", "6", "7", "8", "9">>

UpperChars == <<"A", "B", "C", "D", "E", "F", "G", "H", "I", "J", "K", "L", "M",
                "N", "O", "P", "Q", "R", "S", "T", "U", "V", "W", "X", "Y", "Z">>

LowerChars == <<"a", "b", "c", "d", "e", "f", "g", "h", "i", "j", "k", "l", "m",
                "n", "o", "p", "q", "r", "s", "t", "u", "v", "w", "x", "y", "z">>

IsDigit(c) == \E i \in DOMAIN DigitChars : DigitChars[i] = c

DigitVal(c) == (CHOOSE i \in DOMAIN DigitChars : DigitChars[i] = c) - 1

IsSpace(c) == c \in {" ", "\t", "\n"}

LowerChar(c) ==
    IF \E i \in DOMAIN UpperChars : UpperChars[i] = c
    THEN LowerChars[CHOOSE i \in DOMAIN UpperChars : UpperChars[i] = c]
    ELSE c

\* str.lower()
Lower(s) == [i \in DOMAIN s |-> LowerChar(s[i])]

\* str.strip()
RECURSIVE LStrip(_)
LStrip(s) == IF s # <<>> /\ IsSpace(Head(s)) THEN LStrip(Tail(s)) ELSE s

RECURSIVE RStrip(_)
RStrip(s) ==
    IF s # <<>> /\ IsSpace(s[Len(s)]) THEN RStrip(SubSeq(s, 1, Len(s) - 1)) ELSE s

Strip(s) == RStrip(LStrip(s))

\* str.replace(c, "")
RECURSIVE RemoveChar(_, _)
RemoveChar(s, c) ==
    IF s = <<>> THEN <<>>
    ELSE IF Head(s) = c THEN RemoveChar(Tail(s), c)
    ELSE <<Head(s)>> \o RemoveChar(Tail(s), c)

\* sep.join(parts)
RECURSIVE Join(_, _)
Join(sep, parts) ==
    IF parts = <<>> THEN <<>>
    ELSE IF Len(parts) = 1 THEN parts[1]
    ELSE parts[1] \o sep \o Join(sep, Tail(parts))

\* s.startswith(prefix)
StartsWith(s, prefix) ==
    Len(s) >= Len(prefix) /\ SubSeq(s, 1, Len(prefix)) = prefix

\* needle in s
Contains(s, needle) ==
    \E i \in 1..(Len(s) - Len(needle) + 1) :
        SubSeq(s, i, i + Len(needle) - 1) = needle

\* Optional values: None is <<>>, a value v is <<v>>.
None == <<>>

Some(v) == <<v>>

-----------------------------------------------------------------------------
(* VIEW_RE and parse_view_count.                                           *)

ViewsWord == <<"v", "i", "e", "w", "s">>

\* first index >= i of t that holds no digit (Len(t) + 1 when none)
RECURSIVE DigitsEnd(_, _)
DigitsEnd(t, i) ==
    IF i <= Len(t) /\ IsDigit(t[i]) THEN DigitsEnd(t, i + 1) ELSE i

\* \s* : first index >= i of t that holds no whitespace
RECURSIVE SkipSpace(_, _)
SkipSpace(t, i) ==
    IF i <= Len(t) /\ IsSpace(t[i]) THEN SkipSpace(t, i + 1) ELSE i

\* "views" at index b of t, after the suffix found
ViewsAt(t, b, suffix) ==
    [ok |-> b + 4 <= Len(t) /\ SubSeq(t, b, b + 4) = ViewsWord,
     suffix |-> suffix]

\* (?P<suffix>[kmb])? \s* views at index a of t.  The suffix is greedy;
\* giving it back cannot help, since the next character would have to start
\* "views".
SuffixAt(t, a) ==
    IF a <= Len(t) /\ t[a] \in {"k", "m", "b"}
    THEN ViewsAt(t, SkipSpace(t, a + 1), <<t[a]>>)
    ELSE ViewsAt(t, SkipSpace(t, a), <<>>)

\* \s* (?P<suffix>[kmb])? \s* views, tried at index i of t
MatchTail(t, i) == SuffixAt(t, SkipSpace(t, i))

NoMatch == [ok |-> FALSE]

\* the groups of a match whose integer part is t[p..e1-1] and whose fraction
\* digits are t[e1+1..e2-1]
Groups(t, p, e1, e2, tail) ==
    IF tail.ok
    THEN [ok |-> TRUE, int |-> SubSeq(t, p, e1 - 1),
          frac |-> SubSeq(t, e1 + 1, e2 - 1), suffix |-> tail.suffix]
    ELSE NoMatch

\* the match with the fraction when there is one, else without it
PreferFraction(withFrac, t, p, e1) ==
    IF withFrac.ok THEN withFrac ELSE Groups(t, p, e1, e1, MatchTail(t, e1))

\* (?:\.\d+)? and the rest, after the digits t[p..e1-1]
AfterDigits(t, p, e1) ==
    IF e1 = p THEN NoMatch
    ELSE IF e1 + 1 <= Len(t) /\ t[e1] = "." /\ IsDigit(t[e1 + 1])
    THEN PreferFraction(
             Groups(t, p, e1, DigitsEnd(t, e1 + 1),
                    MatchTail(t, DigitsEnd(t, e1 + 1))), t, p, e1)
    ELSE Groups(t, p, e1, e1, MatchTail(t, e1))

\* VIEW_RE tried at start index p of t.  \d+ is greedy and a shorter digit
\* run is always followed by a digit, which nothing after \d+ accepts; the
\* optional fraction is tried first and then given back.
MatchAt(t, p) == AfterDigits(t, p, DigitsEnd(t, p))

\* VIEW_RE.search(t): the match at the leftmost start index that has one
RECURSIVE SearchFrom(_, _)
FirstMatch(m, t, p) == IF m.ok THEN m ELSE SearchFrom(t, p + 1)

SearchFrom(t, p) ==
    IF p > Len(t) THEN NoMatch ELSE FirstMatch(MatchAt(t, p), t, p)

VIEW_RE_search(t) == SearchFrom(t, 1)

RECURSIVE DigitsToInt(_)
DigitsToInt(ds) ==
    IF ds = <<>> THEN 0
    ELSE DigitsToInt(SubSeq(ds, 1, Len(ds) - 1)) * 10 + DigitVal(ds[Len(ds)])

RECURSIVE Pow10(_)
Pow10(k) == IF k = 0 THEN 1 ELSE 10 * Pow10(k - 1)

\* faulty variant: m counts as a thousand
MultExp_MegaAsKilo(suffix) ==
    IF suffix = <<"k">> THEN 3
    ELSE IF suffix = <<"m">> THEN 3
    ELSE IF suffix = <<"b">> THEN 9
    ELSE 0

\* the multiplier as a power of ten
MultExp(suffix) ==
    IF suffix = <<"k">> THEN 3
    ELSE IF suffix = <<"m">> THEN 6
    ELSE IF suffix = <<"b">> THEN 9
    ELSE 0

\* d * 10^e, truncated to an integer
Scale(d, e) == IF e >= 0 THEN d * Pow10(e) ELSE d \div Pow10(0 - e)

\* int(float(num) * mult) for the numeral int.frac, as the truncated exact
\* product.  The double product equals the exact one for the numerals the
\* model's texts hold (integers, and the fractions of CardPool).
ToInt(int, frac, suffix) ==
    Scale(DigitsToInt(int \o frac), MultExp(suffix) - Len(frac))

\* the value of a match, None without one
MatchValue(m) ==
    IF ~m.ok THEN None ELSE Some(ToInt(m.int, m.frac, m.suffix))

parse_view_count(text) ==
    IF text = <<>> THEN None
    ELSE MatchValue(VIEW_RE_search(RemoveChar(Lower(Strip(text)), ",")))

-----------------------------------------------------------------------------
(* Python dicts, in insertion order.                                       *)

Keys(d) == {d[i].url : i \in DOMAIN d}

Has(d, u) == \E i \in DOMAIN d : d[i].url = u

Get(d, u) == d[CHOOSE i \in DOMAIN d : d[i].url = u].views

\* d[u] = v
SetItem(d, u, v) ==
    IF Has(d, u)
    THEN [i \in DOMAIN d |-> IF d[i].url = u THEN [url |-> u, views |-> v] ELSE d[i]]
    ELSE Append(d, [url |-> u, views |-> v])

\* faulty variant: the later value replaces the first
SetDefault_Overwrite(d, u, v) == SetItem(d, u, v)

\* d.setdefault(u, v)
SetDefault(d, u, v) ==
    IF Has(d, u) THEN d ELSE Append(d, [url |-> u, views |-> v])

-----------------------------------------------------------------------------
(* The page collaborator.  A read of the DOM returns a value or raises.    *)

Raises == [raised |-> TRUE, val |-> <<>>]

Returns(v) == [raised |-> FALSE, val |-> v]

Origin == <<"h", "t", "t", "p", "s", ":", "/", "/", "w", "w", "w", ".",
            "y", "o", "u", "t", "u", "b", "e", ".", "c", "o", "m">>

WatchPath(id) == <<"/", "w", "a", "t", "c", "h", "?", "v", "=", id>>

UrlA == Origin \o WatchPath("A")
UrlB == Origin \o WatchPath("B")
UrlC == Origin \o WatchPath("C")
UrlF == Origin \o WatchPath("F")

Txt1K == <<"1", "K", " ", "v", "i", "e", "w", "s">>
Txt2K == <<"2", "K", " ", "v", "i", "e", "w", "s">>
Txt3K == <<" ", "3", "k", " ", "V", "i", "e", "w", "s", "\n">>
Txt5000 == <<"5", ",", "0", "0", "0", " ", "v", "i", "e", "w", "s">>
TxtAgo == <<"3", " ", "d", "a", "y", "s", " ", "a", "g", "o">>
TxtLive == <<"L", "I", "V", "E">>
TxtNoViews == <<"N", "o", " ", "v", "i", "e", "w", "s">>
TxtBlank == <<" ">>

\* a rendered card: what each of the three reads of the card gives
Card(href, meta, spans) == [href |-> href, meta |-> meta, spans |-> spans]

CardA == Card(Returns(Some(WatchPath("A"))),
              Returns(<<Txt1K, TxtAgo>>), Returns(<<TxtLive, Txt1K, TxtAgo>>))
\* the same video re-rendered: absolute href, another displayed count
CardA2 == Card(Returns(Some(UrlA)),
               Returns(<<Txt5000>>), Returns(<<Txt5000>>))
CardB == Card(Returns(Some(WatchPath("B"))),
              Returns(<<TxtBlank, Txt2K, TxtAgo>>), Returns(<<Txt2K, TxtAgo>>))
\* no count in the metadata line, one in another span
CardC == Card(Returns(Some(WatchPath("C"))),
              Returns(<<TxtLive>>), Returns(<<TxtLive, TxtNoViews, Txt3K>>))
\* the metadata-line read fails
CardBMetaFails == Card(Returns(Some(WatchPath("B"))),
                       Raises, Returns(<<TxtAgo, Txt2K>>))
\* both text reads fail
CardCTextFails == Card(Returns(Some(WatchPath("C"))), Raises, Raises)
\* the fallback read fails after an unparseable metadata line
CardCSpansFail == Card(Returns(Some(WatchPath("C"))),
                       Returns(<<TxtNoViews>>), Raises)
CardHrefFails == Card(Raises, Returns(<<Txt3K>>), Returns(<<Txt3K>>))
CardNoHref == Card(Returns(None), Returns(<<Txt2K>>), Returns(<<Txt2K>>))
CardEmptyHref == Card(Returns(Some(<<>>)), Returns(<<Txt1K>>), Returns(<<Txt1K>>))
CardUnparseable == Card(Returns(Some(WatchPath("D"))),
                        Returns(<<TxtNoViews, TxtAgo>>), Returns(<<TxtNoViews>>))

\* another video showing the same count as CardB
CardF == Card(Returns(Some(WatchPath("F"))),
              Returns(<<Txt2K, TxtAgo>>), Returns(<<Txt2K>>))
\* the metadata line and another span show different counts
CardE == Card(Returns(Some(WatchPath("E"))),
              Returns(<<Txt2K, TxtAgo>>), Returns(<<Txt3K, Txt2K>>))

CardPool == {CardA, CardA2, CardB, CardC, CardBMetaFails, CardCTextFails,
             CardCSpansFail, CardHrefFails, CardNoHref, CardEmptyHref,
             CardUnparseable, CardE}

\* sequences over S of length at most k
SeqsUpTo(S, k) == UNION {[1..m -> S] : m \in 0..k}

\* a snapshot of the DOM: cards.count() raises, or the cards in order
Snapshot(cards) == [countRaises |-> FALSE, cards |-> cards]

LostPage == [countRaises |-> TRUE, cards |-> <<>>]

-----------------------------------------------------------------------------
(* extract_video_cards.  A read inside try/except gives the except branch's*)
(* value when the collaborator raises; a raise nobody catches ends the pass.*)

MetaSep == <<" ", "<bullet>", " ">>

SpanSep == <<" ", "|", " ">>

\* [t.strip() for t in texts if t.strip()]
StrippedNonEmpty(texts) ==
    SelectSeq([i \in DOMAIN texts |-> Strip(texts[i])], LAMBDA t : t # <<>>)

\* [s for s in spans if "views" in s.lower()]
MentionsViews(spans) ==
    SelectSeq(spans, LAMBDA t : Contains(Lower(t), ViewsWord))

\* faulty variant: the read is made outside try/except
ReadHref_NoCatch(card) == card.href

\* the try/except around the href read: href, or None when the read raises
ReadHref(card) ==
    IF card.href.raised THEN Returns(None) ELSE card.href

\* the try/except around the metadata-line read: views_text
ReadMetaText(card) ==
    IF card.meta.raised THEN Returns(<<>>)
    ELSE Returns(Join(MetaSep, StrippedNonEmpty(card.meta.val)))

\* the try/except around the fallback read: vc
ReadFallback(card) ==
    IF card.spans.raised THEN Returns(None)
    ELSE Returns(parse_view_count(Join(SpanSep, MentionsViews(card.spans.val))))

\* faulty variant: the href is the key as it is
NormalizeUrl_AsIs(href) == href

\* url = ("https://www.youtube.com" + href) if href.startswith("/") else href
NormalizeUrl(href) ==
    IF StartsWith(href, <<"/">>) THEN Origin \o href ELSE href

Kept(results) == [raised |-> FALSE, results |-> results]

Raised == [raised |-> TRUE, results |-> <<>>]

\* if vc is not None: results[url] = vc
Record(results, url, vc) ==
    IF vc # None THEN Kept(SetItem(results, url, vc[1])) ELSE Kept(results)

\* the card's step once the fallback read is made
WithFallback(results, url, fb) ==
    IF fb.raised THEN Raised ELSE Record(results, url, fb.val)

\* faulty variant: the fallback value is preferred to the metadata line's
WithPrimary_FallbackFirst(results, card, url, vc) ==
    IF ReadFallback(card).val # None
    THEN WithFallback(results, url, ReadFallback(card))
    ELSE Record(results, url, vc)

\* the card's step once the metadata line is parsed: if vc is None, fallback
WithPrimary(results, card, url, vc) ==
    IF vc = None THEN WithFallback(results, url, ReadFallback(card))
    ELSE Record(results, url, vc)

\* the card's step once the metadata line is read
WithMeta(results, card, url, meta) ==
    IF meta.raised THEN Raised
    ELSE WithPrimary(results, card, url, parse_view_count(meta.val))

\* faulty variant: a URL already in results is read and recorded again
WithUrl_NoSkip(results, card, url) ==
    WithMeta(results, card, url, ReadMetaText(card))

\* the card's step once the url is known: if url in results: continue
WithUrl(results, card, url) ==
    IF Has(results, url) THEN Kept(results)
    ELSE WithMeta(results, card, url, ReadMetaText(card))

\* the card's step once the href is read: if not href: continue
WithHref(results, card, h) ==
    IF h.raised THEN Raised
    ELSE IF h.val = None \/ h.val = Some(<<>>) THEN Kept(results)
    ELSE WithUrl(results, card, NormalizeUrl(h.val[1]))

\* one iteration of the for loop over the cards: [raised, results]
CardStep(results, card) == WithHref(results, card, ReadHref(card))

\* for i in range(count), from card i on
RECURSIVE ExtractFrom(_, _, _)
AfterStep(cards, i, step) ==
    IF step.raised THEN Raised ELSE ExtractFrom(cards, i + 1, step.results)

ExtractFrom(cards, i, results) ==
    IF i > Len(cards) THEN Kept(results)
    ELSE AfterStep(cards, i, CardStep(results, cards[i]))

\* [raised, results]: the returned dict, or raised when an exception leaves
extract_video_cards(pg) ==
    IF pg.countRaises THEN Raised
    ELSE ExtractFrom(pg.cards, 1, <<>>)

-----------------------------------------------------------------------------
(* The report of main.                                                     *)

RECURSIVE SumViews(_)
SumViews(d) == IF d = <<>> THEN 0 ELSE Head(d).views + SumViews(Tail(d))

\* faulty variant: an entry goes before the earlier entries equal to it
RECURSIVE PrefixAtLeast_Strict(_, _)
PrefixAtLeast_Strict(s, v) ==
    IF s # <<>> /\ Head(s).views > v
    THEN 1 + PrefixAtLeast_Strict(Tail(s), v) ELSE 0

\* number of leading entries of the descending sequence s that e goes after
RECURSIVE PrefixAtLeast(_, _)
PrefixAtLeast(s, v) ==
    IF s # <<>> /\ Head(s).views >= v THEN 1 + PrefixAtLeast(Tail(s), v) ELSE 0

\* sorted(items, key=views, reverse=True): stable, equal keys keep their order
\* front with e put after its first k entries
InsertAt(front, e, k) ==
    SubSeq(front, 1, k) \o <<e>> \o SubSeq(front, k + 1, Len(front))

\* the descending sequence front with e put after the entries not below it
InsertDesc(front, e) == InsertAt(front, e, PrefixAtLeast(front, e.views))

\* faulty variant: the items are left in insertion order
SortedDesc_Unsorted(items) == items

RECURSIVE SortedDesc(_)
SortedDesc(items) ==
    IF items = <<>> THEN <<>>
    ELSE InsertDesc(SortedDesc(SubSeq(items, 1, Len(items) - 1)),
                    items[Len(items)])

\* s[:k]
SliceTo(s, k) ==
    IF k >= 0 THEN SubSeq(s, 1, IF k < Len(s) THEN k ELSE Len(s))
    ELSE SubSeq(s, 1, IF Len(s) + k > 0 THEN Len(s) + k ELSE 0)

\* the summary block and the ranked list
Summarize(d, topN) ==
    [count |-> Len(d),
     total |-> SumViews(d),
     ranked |-> topN # 0 /\ Len(d) > 0,
     top |-> IF topN # 0 /\ Len(d) > 0 THEN SliceTo(SortedDesc(d), topN)
             ELSE <<>>]

-----------------------------------------------------------------------------
(* scroll_and_collect: one iteration of its loop.                          *)

\* faulty variant: the batch replaces what was collected
Merge_KeepBatch(all, b) == b

\* faulty variant: the entries of the batch are added whether known or not
Merge_Concat(all, b) == all \o b

\* for url, views in batch.items(): all_results.setdefault(url, views)
RECURSIVE Merge(_, _)
Merge(all, b) ==
    IF b = <<>> THEN all
    ELSE Merge(SetDefault(all, Head(b).url, Head(b).views), Tail(b))

\* faulty variant: one iteration too many
RangeHasNext_OffByOne(i, stop) == i <= stop

\* for n in range(max_scrolls): whether an iteration follows i done ones
RangeHasNext(i, stop) == i < stop

\* faulty variant: growth does not reset the counter
NextStable_NoReset(st, gained) == IF gained = 0 THEN st + 1 ELSE st

\* stable after the round
NextStable(st, gained) == IF gained = 0 THEN st + 1 ELSE 0

\* faulty variant: a threshold below 1 never stops the loop
ShouldBreak_PositiveOnly(st, threshold) == threshold > 0 /\ st >= threshold

\* faulty variant: breaks one round late
ShouldBreak_Strict(st, threshold) == st > threshold

\* the loop's test after the progress line
ShouldBreak(st, threshold) == st >= threshold

\* the card lists the page shows in the runs of main that are explored
MainPages == {<<>>, <<CardA, CardB>>, <<CardA, CardC>>, <<CardA2, CardC>>,
              <<CardA2>>, <<CardB>>, <<CardHrefFails, CardBMetaFails>>}

\* what the page can show to the pass of this round
PagesNow ==
    IF feed # <<>> THEN {Snapshot(Head(feed)), LostPage}
    ELSE {Snapshot(c) : c \in MainPages} \cup {LostPage}

\* the snapshots a run of main can read
MainSnapshots == {Snapshot(c) : c \in MainPages} \cup {LostPage}

\* extract_video_cards on the snapshots of main, computed once
ExtractedMain == [pg \in MainSnapshots |-> extract_video_cards(pg)]

Extracted(pg) ==
    IF pg \in MainSnapshots THEN ExtractedMain[pg] ELSE extract_video_cards(pg)

\* lines 131-150 on snapshot pg: the variables after the progress line
RoundMerge(pg) ==
    LET got == Extracted(pg).results
        merged == Merge(all_results, got)
        gained == Len(merged) - Len(all_results)
        st == NextStable(stable, gained)
    IN  /\ page' = pg
        /\ feed' = IF feed # <<>> THEN Tail(feed) ELSE feed
        /\ extractions' = extractions + 1
        /\ n' = n + 1
        /\ batch' = got
        /\ all_results' = merged
        /\ stable' = st
        /\ progress' = Append(progress, [round |-> n + 1, unique |-> Len(merged),
                                         gained |-> gained, stable |-> st])

-----------------------------------------------------------------------------
(* main.                                                                   *)

Idle ==
    /\ browser = "none"
    /\ batch = <<>>
    /\ all_results = <<>>
    /\ stable = 0
    /\ n = 0
    /\ progress = <<>>
    /\ scrolls = 0
    /\ pauses = 0
    /\ extractions = 0
    /\ report = <<>>
    /\ notice = FALSE

\* no parse_view_count call is under check
NoText ==
    /\ parse_arg = <<>>
    /\ parsed = None

ArgsInit ==
    /\ max_scrolls \in (-1)..MaxRounds
    /\ stable_rounds \in (-1)..MaxStable
    /\ top \in (-1)..MaxTop

Init ==
    /\ pc = "start"
    /\ ArgsInit
    /\ Idle
    /\ NoText
    /\ page = Snapshot(<<>>)
    /\ feed = <<>>

args == <<max_scrolls, stable_rounds, top>>

parseVars == <<parse_arg, parsed>>

loopVars == <<page, batch, all_results, stable, n, progress, scrolls, pauses,
              extractions, feed>>

\* p.chromium.launch, browser.new_context, context.new_page
Launch ==
    /\ pc = "start"
    /\ pc' = "goto"
    /\ browser' = "open"
    /\ UNCHANGED <<args, parseVars, loopVars, report, notice>>

\* page.goto returns
Goto ==
    /\ pc = "goto"
    /\ pc' = "wait"
    /\ UNCHANGED <<args, parseVars, browser, loopVars, report, notice>>

\* page.goto raises: the exception leaves main through the with block
GotoRaises ==
    /\ pc = "goto"
    /\ pc' = "crashed"
    /\ UNCHANGED <<args, parseVars, browser, loopVars, report, notice>>

\* wait_for_selector returns; scroll_and_collect is entered
WaitOk ==
    /\ pc = "wait"
    /\ pc' = "loop"
    /\ all_results' = <<>>
    /\ stable' = 0
    /\ n' = 0
    /\ UNCHANGED <<args, parseVars, browser, page, batch, progress, scrolls, pauses,
                   extractions, feed, report, notice>>

\* faulty variant: the except branch does not return
WaitTimeout_FallsThrough ==
    /\ pc = "wait"
    /\ pc' = "loop"
    /\ notice' = TRUE
    /\ browser' = "closed"
    /\ UNCHANGED <<args, parseVars, loopVars, report>>

\* wait_for_selector times out: message, browser.close(), return
WaitTimeout ==
    /\ pc = "wait"
    /\ pc' = "done"
    /\ notice' = TRUE
    /\ browser' = "closed"
    /\ UNCHANGED <<args, parseVars, loopVars, report>>

\* faulty variant: the loop catches the exception and returns what it has
RoundExtractRaises_Swallowed ==
    /\ pc = "loop"
    /\ RangeHasNext(n, max_scrolls)
    /\ \E pg \in PagesNow :
        /\ Extracted(pg).raised
        /\ page' = pg
        /\ feed' = IF feed # <<>> THEN Tail(feed) ELSE feed
    /\ extractions' = extractions + 1
    /\ n' = n + 1
    /\ pc' = "collected"
    /\ UNCHANGED <<args, parseVars, browser, batch, all_results, stable, progress, scrolls,
                   pauses, report, notice>>

\* a round whose extract_video_cards raises: nothing catches it
RoundExtractRaises ==
    /\ pc = "loop"
    /\ RangeHasNext(n, max_scrolls)
    /\ \E pg \in PagesNow :
        /\ Extracted(pg).raised
        /\ page' = pg
        /\ feed' = IF feed # <<>> THEN Tail(feed) ELSE feed
    /\ extractions' = extractions + 1
    /\ n' = n + 1
    /\ pc' = "crashed"
    /\ UNCHANGED <<args, parseVars, browser, batch, all_results, stable, progress, scrolls,
                   pauses, report, notice>>

\* faulty variant: the scroll and the sleep come before the break test
RoundBreak_ScrollFirst ==
    /\ pc = "loop"
    /\ RangeHasNext(n, max_scrolls)
    /\ \E pg \in PagesNow :
        /\ ~Extracted(pg).raised
        /\ RoundMerge(pg)
    /\ ShouldBreak(stable', stable_rounds)
    /\ scrolls' = scrolls + 1
    /\ pauses' = pauses + 1
    /\ pc' = "collected"
    /\ UNCHANGED <<args, parseVars, browser, report, notice>>

\* a round that ends in break
RoundBreak ==
    /\ pc = "loop"
    /\ RangeHasNext(n, max_scrolls)
    /\ \E pg \in PagesNow :
        /\ ~Extracted(pg).raised
        /\ RoundMerge(pg)
    /\ ShouldBreak(stable', stable_rounds)
    /\ pc' = "collected"
    /\ UNCHANGED <<args, parseVars, browser, scrolls, pauses, report, notice>>

\* faulty variant: the last round of the range does not scroll or sleep
RoundScroll_SkipLast ==
    /\ pc = "loop"
    /\ RangeHasNext(n, max_scrolls)
    /\ \E pg \in PagesNow :
        /\ ~Extracted(pg).raised
        /\ RoundMerge(pg)
    /\ ~ShouldBreak(stable', stable_rounds)
    /\ scrolls' = IF RangeHasNext(n', max_scrolls) THEN scrolls + 1 ELSE scrolls
    /\ pauses' = IF RangeHasNext(n', max_scrolls) THEN pauses + 1 ELSE pauses
    /\ pc' = "loop"
    /\ UNCHANGED <<args, parseVars, browser, report, notice>>

\* a round that ends in the scroll and the sleep
RoundScroll ==
    /\ pc = "loop"
    /\ RangeHasNext(n, max_scrolls)
    /\ \E pg \in PagesNow :
        /\ ~Extracted(pg).raised
        /\ RoundMerge(pg)
    /\ ~ShouldBreak(stable', stable_rounds)
    /\ scrolls' = scrolls + 1
    /\ pauses' = pauses + 1
    /\ pc' = "loop"
    /\ UNCHANGED <<args, parseVars, browser, report, notice>>

\* a round whose page.evaluate raises
RoundScrollRaises ==
    /\ pc = "loop"
    /\ RangeHasNext(n, max_scrolls)
    /\ \E pg \in PagesNow :
        /\ ~Extracted(pg).raised
        /\ RoundMerge(pg)
    /\ ~ShouldBreak(stable', stable_rounds)
    /\ scrolls' = scrolls + 1
    /\ pc' = "crashed"
    /\ UNCHANGED <<args, parseVars, browser, pauses, report, notice>>

\* range(max_scrolls) is used up: return all_results
LoopExit ==
    /\ pc = "loop"
    /\ ~RangeHasNext(n, max_scrolls)
    /\ pc' = "collected"
    /\ UNCHANGED <<args, parseVars, browser, loopVars, report, notice>>

\* the summary block and the ranked list are printed
Summary ==
    /\ pc = "collected"
    /\ pc' = "summarized"
    /\ report' = Some(Summarize(all_results, top))
    /\ UNCHANGED <<args, parseVars, browser, loopVars, notice>>

\* browser.close() at the end of main
Close ==
    /\ pc = "summarized"
    /\ pc' = "done"
    /\ browser' = "closed"
    /\ UNCHANGED <<args, parseVars, loopVars, report, notice>>

Next ==
    \/ Launch
    \/ Goto
    \/ GotoRaises
    \/ WaitOk
    \/ WaitTimeout
    \/ RoundExtractRaises
    \/ RoundBreak
    \/ RoundScroll
    \/ RoundScrollRaises
    \/ LoopExit
    \/ Summary
    \/ Close

Spec == Init /\ [][Next]_vars

\* the runs of main without a ranked list: scroll_and_collect never reads
\* args.top
InitLoop ==
    /\ pc = "start"
    /\ max_scrolls \in (-1)..MaxRounds
    /\ stable_rounds \in (-1)..MaxStable
    /\ top = 0
    /\ Idle
    /\ NoText
    /\ page = Snapshot(<<>>)
    /\ feed = <<>>

\* main runs on one thread that is never suspended for ever: a statement
\* that can run does run
FairSpec == InitLoop /\ [][Next]_vars /\ WF_vars(Next)

\* scroll_and_collect has returned its dict
Collected ==
    \/ pc \in {"collected", "summarized"}
    \/ pc = "done" /\ ~notice

-----------------------------------------------------------------------------
(* main against a scripted page: the first rounds read the card lists of   *)
(* feed in order, later rounds read any page.                              *)

ScenarioFeeds ==
    {<<<<CardA, CardB>>, <<CardA, CardC>>, third>> :
        third \in {<<>>, <<CardA, CardC>>, <<CardB>>, <<CardA2>>}}

InitScenario ==
    /\ pc = "start"
    /\ ArgsInit
    /\ Idle
    /\ NoText
    /\ page = Snapshot(<<>>)
    /\ feed \in ScenarioFeeds

SpecScenario == InitScenario /\ [][Next]_vars

-----------------------------------------------------------------------------
(* main against a page that re-renders: a video shown twice in one pass,   *)
(* with a relative and an absolute href, and again in a later round; two   *)
(* videos showing the same count, listed in another order than first seen. *)

RerenderFeeds ==
    {<<<<CardF>>, <<CardB, CardF>>, <<CardA>>>>,
     <<<<CardA2, CardA>>, <<CardA, CardB>>>>,
     <<<<CardA, CardA2>>, <<CardA2, CardF>>, <<CardB>>>>}

InitRerender ==
    /\ pc = "start"
    /\ ArgsInit
    /\ Idle
    /\ NoText
    /\ page = Snapshot(<<>>)
    /\ feed \in RerenderFeeds

SpecRerender == InitRerender /\ [][Next]_vars

-----------------------------------------------------------------------------
(* One pass of extract_video_cards over any snapshot of at most MaxCards   *)
(* cards of CardPool.                                                      *)

InitExtract ==
    /\ pc = "pass"
    /\ max_scrolls = 0
    /\ stable_rounds = 0
    /\ top = 0
    /\ Idle
    /\ NoText
    /\ page \in {Snapshot(c) : c \in SeqsUpTo(CardPool, MaxCards)} \cup {LostPage}
    /\ feed = <<>>

ExtractPass ==
    /\ pc = "pass"
    /\ batch' = extract_video_cards(page).results
    /\ pc' = IF extract_video_cards(page).raised THEN "pass_raised"
             ELSE "pass_returned"
    /\ extractions' = extractions + 1
    /\ UNCHANGED <<args, parseVars, browser, page, all_results, stable, n, progress,
                   scrolls, pauses, report, notice, feed>>

NextExtract == ExtractPass

SpecExtract == InitExtract /\ [][NextExtract]_vars

-----------------------------------------------------------------------------
(* One call of parse_view_count on a text: a numeral, an optional suffix   *)
(* in either case and the word views in any case, or a text without a      *)
(* count.  The results stay below 2^31.                                    *)

Num1234 == <<"1", ",", "2", "3", "4">>
Num12 == <<"1", "2">>
Num1p2 == <<"1", ".", "2">>
Num2 == <<"2">>

Numerals == {Num1234, Num12, Num1p2, Num2}

\* the suffixes a numeral is combined with
SuffixesOf(num) ==
    {<<>>, <<"k">>, <<"K">>, <<"m">>, <<"M">>}
        \cup (IF num \in {Num1p2, Num2} THEN {<<"b">>, <<"B">>} ELSE {})

Gaps == {<<>>, <<" ">>}

Words == {<<"v", "i", "e", "w", "s">>, <<"V", "I", "E", "W", "S">>, <<"V", "i", "e", "w", "s">>}

Phrase(num, gap, sfx, word) == num \o gap \o sfx \o <<" ">> \o word

TxtNoData == <<"n", "o", " ", "d", "a", "t", "a", " ", "h", "e", "r", "e">>
TxtLikes == <<"1", "2", " ", "l", "i", "k", "e", "s">>
TxtSuffixOnly == <<"K", " ", "v", "i", "e", "w", "s">>

ParseTexts ==
    {Phrase(num, gap, sfx, word) :
        num \in Numerals, gap \in Gaps,
        sfx \in {<<>>, <<"k">>, <<"K">>, <<"m">>, <<"M">>}, word \in Words}
    \cup {Phrase(num, gap, sfx, word) :
        num \in {Num1p2, Num2}, gap \in Gaps,
        sfx \in {<<"b">>, <<"B">>}, word \in Words}
    \cup {<<>>, TxtNoData, TxtLikes, TxtSuffixOnly, ViewsWord}

InitParse ==
    /\ pc = "parse"
    /\ max_scrolls = 0
    /\ stable_rounds = 0
    /\ top = 0
    /\ Idle
    /\ page = Snapshot(<<>>)
    /\ feed = <<>>
    /\ parse_arg \in ParseTexts
    /\ parsed = None

ParseText ==
    /\ pc = "parse"
    /\ parsed' = parse_view_count(parse_arg)
    /\ pc' = "parsed"
    /\ UNCHANGED <<args, browser, loopVars, report, notice, parse_arg>>

NextParse == ParseText

SpecParse == InitParse /\ [][NextParse]_vars

-----------------------------------------------------------------------------
(* Properties.                                                             *)

LastLine == progress[Len(progress)]

\* the latest round ended with stable >= stable_rounds
Converged == progress # <<>> /\ LastLine.stable >= stable_rounds

C1_RoundsBounded ==
    /\ max_scrolls >= 0 => n <= max_scrolls /\ extractions <= max_scrolls
    /\ Len(progress) <= n
    /\ max_scrolls = 0 /\ Collected =>
           all_results = <<>> /\ extractions = 0 /\ scrolls = 0 /\ pauses = 0

\* C1: scroll_and_collect always leaves its loop, after at most max_scrolls
\* rounds and at most max_scrolls extractions, whatever the threshold and the
\* batches; with max_scrolls = 0 it returns the empty dict without any
\* extraction or scroll.
C1_Terminates ==
    /\ []C1_RoundsBounded
    /\ (pc = "loop") ~> (pc # "loop")

C1_Witness ==
    /\ Collected
    /\ max_scrolls >= 2
    /\ n = max_scrolls
    /\ LastLine.stable < stable_rounds

\* C2: the loop ends at a round r < max_scrolls exactly when r is the first
\* round that ends with stable >= stable_rounds; when round 2 is the last
\* round that gains URLs, stable_rounds = 3 and max_scrolls >= 5, it ends at
\* round 5.
C2_EarlyStopIffStreak ==
    /\ \A k \in DOMAIN progress :
           progress[k].stable >= stable_rounds => k = Len(progress) /\ Collected
    /\ Collected /\ Len(progress) < max_scrolls => Converged
    /\ ( /\ Collected
         /\ stable_rounds = 3
         /\ max_scrolls >= 5
         /\ Len(progress) >= 2
         /\ progress[2].gained > 0
         /\ \A k \in DOMAIN progress : k > 2 => progress[k].gained = 0 )
       => Len(progress) = 5

C2_Witness ==
    /\ Collected
    /\ stable_rounds = 3
    /\ max_scrolls > 5
    /\ Len(progress) = 5
    /\ progress[2].gained > 0
    /\ progress[3].gained = 0

\* C3: an entry of the running dict keeps its value in every later state of
\* the run, whatever value a later batch gives for its URL.
C3_FirstSeenWins ==
    [][\A i \in DOMAIN all_results :
           /\ Has(all_results', all_results[i].url)
           /\ Get(all_results', all_results[i].url) = all_results[i].views]_vars

C3_Witness ==
    /\ pc = "loop"
    /\ Has(all_results, UrlA)
    /\ Has(batch, UrlA)
    /\ Get(batch, UrlA) # Get(all_results, UrlA)

\* C4: once a round ends with stable >= stable_rounds the loop is over and
\* neither that round nor anything after it scrolls or pauses: a run that
\* converges in r rounds has issued r - 1 scrolls and r - 1 pauses.
C4_NoScrollOnceConverged ==
    Converged =>
        /\ Collected
        /\ scrolls = Len(progress) - 1
        /\ pauses = Len(progress) - 1

C4_Witness ==
    /\ Collected
    /\ stable_rounds >= 1
    /\ Len(progress) = 3
    /\ Converged
    /\ scrolls = 2

\* number of consecutive rounds up to round k that gained nothing
TrailingNoGrowth(k) ==
    Cardinality({j \in 1..k : \A i \in j..k : progress[i].gained = 0})

\* growth of the dict in round k, from the sizes printed
GrowthOf(k) ==
    progress[k].unique - (IF k = 1 THEN 0 ELSE progress[k - 1].unique)

\* C5: at the end of every round stable is the number of consecutive most
\* recent rounds in which the dict did not grow: one more after a round that
\* gained nothing, 0 after a round in which the dict grew.
C5_StreakCountsNoGrowth ==
    /\ \A k \in DOMAIN progress :
           /\ progress[k].gained = GrowthOf(k)
           /\ progress[k].stable = TrailingNoGrowth(k)
    /\ progress # <<>> =>
           stable = LastLine.stable /\ Len(all_results) = LastLine.unique
    /\ progress = <<>> => stable = 0 /\ all_results = <<>>

C5_Witness ==
    /\ Len(progress) >= 4
    /\ progress[1].gained > 0
    /\ progress[2].stable = 1
    /\ progress[3].gained > 0
    /\ progress[3].stable = 0
    /\ progress[4].stable = 1

Entry(url, views) == [url |-> url, views |-> views]

\* C6: with rounds extracting {A:1000, B:2000}, {A:1000, C:3000} and then
\* nothing new, stable_rounds = 1 and max_scrolls >= 3, the loop ends after
\* round 3 with {A:1000, B:2000, C:3000}, the total is 6000 and the top 2 are
\* C:3000, B:2000.
C6_EndToEnd ==
    /\ Len(progress) = 1 => batch = <<Entry(UrlA, 1000), Entry(UrlB, 2000)>>
    /\ Len(progress) = 2 => batch = <<Entry(UrlA, 1000), Entry(UrlC, 3000)>>
    /\ Collected /\ stable_rounds = 1 /\ max_scrolls >= 3 =>
        /\ Len(progress) = 3
        /\ LastLine.gained = 0
        /\ all_results =
               <<Entry(UrlA, 1000), Entry(UrlB, 2000), Entry(UrlC, 3000)>>
        /\ report # <<>> =>
               /\ report[1].count = 3
               /\ report[1].total = 6000
               /\ top = 2 =>
                      report[1].top = <<Entry(UrlC, 3000), Entry(UrlB, 2000)>>

C6_Witness ==
    /\ pc = "done"
    /\ report # <<>>
    /\ stable_rounds = 1
    /\ max_scrolls >= 3
    /\ top = 2
    /\ Len(progress) = 3

\* C7: every run that launched the browser has closed it when it ends.
C7_BrowserClosedAtEnd ==
    pc \in {"done", "crashed"} /\ browser # "none" => browser = "closed"

\* C8: when the initial wait times out, main prints the message and ends:
\* no round, extraction, scroll or pause happens and no summary is printed.
C8_TimeoutEndsRun ==
    notice =>
        /\ pc = "done"
        /\ n = 0
        /\ extractions = 0
        /\ scrolls = 0
        /\ pauses = 0
        /\ progress = <<>>
        /\ report = <<>>

C8_Witness == notice /\ pc = "done" /\ browser = "closed"

C9_Aborted ==
    page.countRaises =>
        /\ pc = "crashed"
        /\ extractions = n
        /\ Len(progress) = n - 1
        /\ scrolls = n - 1
        /\ pauses = n - 1
        /\ report = <<>>

\* C9: when the extraction of a round raises, the run is over in that round:
\* the exception leaves main, the round is not retried, no later round,
\* scroll or pause happens and no dict is returned or summarized.
C9_ExtractionFaultAborts ==
    /\ []C9_Aborted
    /\ [][~page.countRaises]_vars

C9_Witness ==
    /\ page.countRaises
    /\ pc = "crashed"
    /\ all_results # <<>>

\* the card gives a value: its href is read and not empty, and one of its
\* two text sources is read and parses
Yields(card) ==
    /\ ~card.href.raised
    /\ card.href.val # None
    /\ card.href.val # Some(<<>>)
    /\ \/ /\ ~card.meta.raised
          /\ parse_view_count(Join(MetaSep, StrippedNonEmpty(card.meta.val))) # None
       \/ /\ ~card.spans.raised
          /\ parse_view_count(Join(SpanSep, MentionsViews(card.spans.val))) # None

UrlOf(card) == NormalizeUrl(card.href.val[1])

\* C10: a pass of extract_video_cards over cards whose reads fail in any
\* pattern returns, and its dict holds exactly the URLs of the cards whose
\* href was read and for which a text source was read and parsed.
C10_ReadFailuresAbsorbed ==
    pc # "pass" /\ ~page.countRaises =>
        /\ pc = "pass_returned"
        /\ Keys(batch) =
               {UrlOf(page.cards[i]) :
                    i \in {j \in DOMAIN page.cards : Yields(page.cards[j])}}

C10_Witness ==
    /\ pc = "pass_returned"
    /\ \E i, j \in DOMAIN page.cards :
           /\ i < j
           /\ page.cards[i].href.raised
           /\ page.cards[j].meta.raised
           /\ Yields(page.cards[j])
           /\ Has(batch, UrlOf(page.cards[j]))

\* the card has an href that is read and is not empty
HasHref(card) ==
    ~card.href.raised /\ card.href.val # None /\ card.href.val # Some(<<>>)

\* what the metadata line of the card parses to, None when it gives nothing
PrimaryValue(card) == parse_view_count(ReadMetaText(card).val)

\* what the other spans of the card parse to, None when they give nothing
FallbackValue(card) == ReadFallback(card).val

\* the value the two sources give in the order primary, fallback
CardValue(card) ==
    IF PrimaryValue(card) # None THEN PrimaryValue(card) ELSE FallbackValue(card)

\* card k of the page carries url and gives a value
GivesFor(cards, k, url) ==
    HasHref(cards[k]) /\ UrlOf(cards[k]) = url /\ CardValue(cards[k]) # None

\* card j is not skipped: no earlier card has put its URL into the output
FirstOfUrl(cards, j) ==
    HasHref(cards[j]) /\ \A i \in 1..(j - 1) : ~GivesFor(cards, i, UrlOf(cards[j]))

\* C11: a card with a non-empty href whose URL is not yet in the output is
\* recorded with what its metadata line parses to whenever that parses,
\* otherwise with what its other spans parse to, and adds nothing, without an
\* error, when neither gives a value; a card without an href or with an empty
\* one adds no entry.
C11_PrimaryThenFallback ==
    pc = "pass_returned" =>
        /\ \A j \in DOMAIN page.cards :
               FirstOfUrl(page.cards, j) =>
                   IF PrimaryValue(page.cards[j]) # None
                   THEN /\ Has(batch, UrlOf(page.cards[j]))
                        /\ Get(batch, UrlOf(page.cards[j])) =
                               PrimaryValue(page.cards[j])[1]
                   ELSE IF FallbackValue(page.cards[j]) # None
                   THEN /\ Has(batch, UrlOf(page.cards[j]))
                        /\ Get(batch, UrlOf(page.cards[j])) =
                               FallbackValue(page.cards[j])[1]
                   ELSE Has(batch, UrlOf(page.cards[j])) =>
                            \E k \in DOMAIN page.cards :
                                k > j /\ GivesFor(page.cards, k, UrlOf(page.cards[j]))
        /\ \A u \in Keys(batch) :
               \E k \in DOMAIN page.cards : GivesFor(page.cards, k, u)
        /\ Len(batch) <=
               Cardinality({k \in DOMAIN page.cards : HasHref(page.cards[k])})

C11_Witness ==
    /\ pc = "pass_returned"
    /\ page.cards = <<CardE, CardC>>
    /\ PrimaryValue(CardE) = Some(2000)
    /\ FallbackValue(CardE) = Some(3000)
    /\ PrimaryValue(CardC) = None
    /\ batch = <<Entry(UrlOf(CardE), 2000), Entry(UrlC, 3000)>>

Min(a, b) == IF a <= b THEN a ELSE b

\* C12: the ranked list of a printed summary is empty whenever top <= 0 or
\* the dict is empty, and is otherwise the first min(top, count) entries of
\* the dict sorted descending by views.
C12_TopEmptyOrPrefix ==
    report # <<>> =>
        IF top <= 0 \/ all_results = <<>>
        THEN report[1].top = <<>>
        ELSE report[1].top =
                 SubSeq(SortedDesc(all_results), 1, Min(top, Len(all_results)))

\* position of url in the dict: the order in which the URLs were inserted
IndexOf(d, url) == CHOOSE i \in DOMAIN d : d[i].url = url

\* s is the front part of t
IsPrefix(s, t) == Len(s) <= Len(t) /\ SubSeq(t, 1, Len(s)) = s

\* t holds k entries of d, greatest first, equal ones in the order of d, and
\* no entry of d left out is greater than one in t
StableTopOf(t, d, k) ==
    /\ Len(t) = k
    /\ \A i \in DOMAIN t : Has(d, t[i].url) /\ Get(d, t[i].url) = t[i].views
    /\ \A i, j \in DOMAIN t :
           i < j =>
               /\ t[i].views >= t[j].views
               /\ t[i].views = t[j].views =>
                      IndexOf(d, t[i].url) < IndexOf(d, t[j].url)
    /\ \A e \in DOMAIN d :
           (\A i \in DOMAIN t : t[i].url # d[e].url) =>
               \A i \in DOMAIN t :
                   \/ t[i].views > d[e].views
                   \/ t[i].views = d[e].views /\ IndexOf(d, t[i].url) < e

C13_TopOfDict ==
    /\ \A k \in 0..Len(all_results) :
           StableTopOf(Summarize(all_results, k).top, all_results, k)
    /\ report # <<>> /\ top >= 0 /\ top <= Len(all_results) =>
           StableTopOf(report[1].top, all_results, top)

\* C13: for every N from 0 to the size of the dict the ranked list has N
\* entries, its views never increase, and entries with equal views come in
\* the order in which their URLs were first inserted into the dict, which
\* later rounds never reorder.
C13_StableDescendingPrefix ==
    /\ []C13_TopOfDict
    /\ [][IsPrefix(all_results, all_results')]_vars

C13_Witness ==
    /\ report # <<>>
    /\ top = 2
    /\ all_results = <<Entry(UrlF, 2000), Entry(UrlB, 2000), Entry(UrlA, 1000)>>
    /\ progress[2].gained = 1
    /\ report[1].top = <<Entry(UrlF, 2000), Entry(UrlB, 2000)>>

\* sum over the URLs of U of the value the dict holds for each
RECURSIVE SumOverUrls(_, _)
SumOverUrls(d, U) ==
    IF U = {} THEN 0
    ELSE Get(d, CHOOSE u \in U : TRUE)
         + SumOverUrls(d, U \ {CHOOSE u \in U : TRUE})

C14_CountAndTotal ==
    /\ Cardinality(Keys(all_results)) = Len(all_results)
    /\ report # <<>> =>
           /\ report[1].count = Cardinality(Keys(all_results))
           /\ report[1].total = SumOverUrls(all_results, Keys(all_results))

\* a step gives a URL new to the dict the value of the batch just extracted
\* and leaves every other URL its value
C14_FirstSeenValue ==
    \A u \in Keys(all_results') :
        IF Has(all_results, u)
        THEN Get(all_results', u) = Get(all_results, u)
        ELSE Has(batch', u) /\ Get(all_results', u) = Get(batch', u)

\* C14: the count of a printed summary is the number of distinct URLs of the
\* final dict and its total is the sum of the dict's values, each URL holding
\* the value of the first batch that had it, counted once however many cards
\* and rounds showed it.
C14_EachUrlOnce ==
    /\ []C14_CountAndTotal
    /\ [][C14_FirstSeenValue]_vars

C14_Witness ==
    /\ pc = "done"
    /\ report # <<>>
    /\ all_results = <<Entry(UrlA, 1000), Entry(UrlF, 2000), Entry(UrlB, 2000)>>
    /\ report[1].count = 3
    /\ report[1].total = 5000

\* ten times the number a numeral of Numerals denotes
Tenths(num) ==
    IF num = Num1234 THEN 12340
    ELSE IF num = Num12 THEN 120
    ELSE IF num = Num1p2 THEN 12
    ELSE 20

\* the multiplier the spec gives for a suffix in either case
Times(sfx) ==
    IF sfx \in {<<"k">>, <<"K">>} THEN 1000
    ELSE IF sfx \in {<<"m">>, <<"M">>} THEN 1000000
    ELSE IF sfx \in {<<"b">>, <<"B">>} THEN 1000000000
    ELSE 1

\* the numeral times the multiplier, fraction dropped
Product(num, sfx) ==
    (Tenths(num) \div 10) * Times(sfx)
        + (Tenths(num) % 10) * (Times(sfx) \div 10)

Txt34B == <<"3", ".", "4", "B", " ", "v", "i", "e", "w", "s">>

\* the groups VIEW_RE finds in '3.4B views'
Groups34B == VIEW_RE_search(RemoveChar(Lower(Strip(Txt34B)), ","))

\* C15: parse_view_count gives the numeral before 'views', commas dropped,
\* times 1, 1,000, 1,000,000 or 1,000,000,000 for no suffix, k, m or b, in any
\* case of the suffix and of the word: 1234 for '1,234 views', 12000 for
\* '12K views' and for '12k VIEWS', 1200000 for '1.2M views'; in '3.4B views'
\* it finds the numeral 3.4 and the suffix b, 34 times 10^8; it gives None
\* for the empty text and for a text without a count before 'views'.
C15_ParseMagnitudes ==
    /\ pc = "parsed" =>
           /\ \A num \in Numerals, gap \in Gaps, word \in Words :
                  \A sfx \in SuffixesOf(num) :
                      parse_arg = Phrase(num, gap, sfx, word) =>
                          parsed = Some(Product(num, sfx))
           /\ parse_arg = <<"1", ",", "2", "3", "4", " ", "v", "i", "e", "w", "s">> =>
                  parsed = Some(1234)
           /\ parse_arg = <<"1", "2", "K", " ", "v", "i", "e", "w", "s">> =>
                  parsed = Some(12000)
           /\ parse_arg = <<"1", "2", "k", " ", "V", "I", "E", "W", "S">> =>
                  parsed = Some(12000)
           /\ parse_arg = <<"1", ".", "2", "M", " ", "v", "i", "e", "w", "s">> =>
                  parsed = Some(1200000)
           /\ parse_arg \in {<<>>, TxtNoData, TxtLikes, TxtSuffixOnly, ViewsWord} =>
                  parsed = None
           /\ \A other \in ParseTexts :
                  Lower(other) = Lower(parse_arg) => parse_view_count(other) = parsed
    /\ Groups34B.ok
    /\ Groups34B.int = <<"3">>
    /\ Groups34B.frac = <<"4">>
    /\ Groups34B.suffix = <<"b">>
    /\ DigitsToInt(Groups34B.int \o Groups34B.frac) = 34
    /\ MultExp(Groups34B.suffix) - Len(Groups34B.frac) = 8

C15_Witness ==
    /\ pc = "parsed"
    /\ parse_arg = <<"1", ".", "2", "M", " ", "v", "i", "e", "w", "s">>
    /\ parsed = Some(1200000)

\* the first card of the page, in iteration order, that carries url and
\* gives a value
FirstGiver(cards, url) ==
    CHOOSE k \in DOMAIN cards :
        /\ GivesFor(cards, k, url)
        /\ \A i \in 1..(k - 1) : ~GivesFor(cards, i, url)

\* C16: in the dict a pass returns no URL occurs twice, the value of every
\* URL is that of the first card in iteration order that carries the URL and
\* gives a value, whatever later cards with that URL show, and every card
\* that gives a value has its URL in the dict even when an earlier card with
\* the same URL gave none.
C16_FirstCardOfUrlWins ==
    pc = "pass_returned" =>
        /\ Cardinality(Keys(batch)) = Len(batch)
        /\ \A u \in Keys(batch) :
               /\ \E k \in DOMAIN page.cards : GivesFor(page.cards, k, u)
               /\ Get(batch, u) =
                      CardValue(page.cards[FirstGiver(page.cards, u)])[1]
        /\ \A k \in DOMAIN page.cards :
               HasHref(page.cards[k]) /\ CardValue(page.cards[k]) # None =>
                   Has(batch, UrlOf(page.cards[k]))

C16_Witness ==
    /\ pc = "pass_returned"
    /\ page.cards = <<CardA2, CardA>>
    /\ CardValue(CardA) = Some(1000)
    /\ batch = <<Entry(UrlA, 5000)>>

\* an earlier card with the same URL gave no value and the later one is
\* recorded
C16_LaterCardRecorded ==
    /\ pc = "pass_returned"
    /\ page.cards = <<CardCTextFails, CardC>>
    /\ batch = <<Entry(UrlC, 3000)>>

\* the hrefs the cards of the model show
RelativeHrefs == {WatchPath(id) : id \in {"A", "B", "C", "D", "E", "F"}}

\* number of entries of the dict under url
EntriesFor(d, url) == Cardinality({i \in DOMAIN d : d[i].url = url})

\* the keys of the dict are the hrefs of the page's cards made absolute, none
\* is a relative href, none occurs twice
C17_KeysAbsolute(d) ==
    /\ \A i \in DOMAIN d :
           /\ ~StartsWith(d[i].url, <<"/">>)
           /\ d[i].url \notin RelativeHrefs
           /\ EntriesFor(d, d[i].url) = 1

\* C17: the key of a card is its href with the origin put before it when the
\* href starts with '/', and the href itself otherwise, so '/watch?v=A' and
\* 'https://www.youtube.com/watch?v=A' give one key: a batch and the running
\* dict hold video A at most once, under the absolute URL, when cards with
\* both forms are shown in one pass or in different rounds.
C17_OneKeyPerVideo ==
    /\ NormalizeUrl(WatchPath("A")) = Origin \o WatchPath("A")
    /\ NormalizeUrl(Origin \o WatchPath("A")) = Origin \o WatchPath("A")
    /\ C17_KeysAbsolute(batch)
    /\ C17_KeysAbsolute(all_results)
    /\ ~page.countRaises =>
           \A u \in Keys(batch) :
               \E k \in DOMAIN page.cards :
                   /\ HasHref(page.cards[k])
                   /\ u = IF Head(page.cards[k].href.val[1]) = "/"
                          THEN Origin \o page.cards[k].href.val[1]
                          ELSE page.cards[k].href.val[1]

C17_Witness ==
    /\ Collected
    /\ Len(progress) >= 2
    /\ progress[1].unique = 1
    /\ page.cards = <<CardA2, CardF>>
    /\ CardA.href.val = Some(WatchPath("A"))
    /\ CardA2.href.val = Some(UrlA)
    /\ all_results = <<Entry(UrlA, 1000), Entry(UrlF, 2000)>>

\* the step is a round whose extraction returned
RoundDone == Len(progress') = Len(progress) + 1

C18_RoundAddsBatchKeys ==
    /\ extractions' # extractions /\ pc' # "crashed" => RoundDone
    /\ IF RoundDone
       THEN /\ Keys(all_results') = Keys(all_results) \cup Keys(batch')
            /\ batch' = Extracted(page').results
       ELSE all_results' = all_results
    /\ Keys(all_results) \subseteq Keys(all_results')
    /\ Len(all_results') >= Len(all_results)

C18_SizesAgree ==
    /\ \A k \in DOMAIN progress :
           /\ progress[k].gained >= 0
           /\ progress[k].unique >= progress[k].gained
    /\ progress = <<>> => all_results = <<>>
    /\ Keys(batch) \subseteq Keys(all_results)

\* C18: the running dict is empty before the first round and every round
\* whose extraction returns makes its key set the union of the former key
\* set and the batch's key set, no other step changes it: after every round
\* the key set is the union of the key sets of all batches of the run, no
\* entry is removed, the size never decreases and gained is never negative.
C18_KeysAreUnionOfBatches ==
    /\ []C18_SizesAgree
    /\ [][C18_RoundAddsBatchKeys]_vars

C18_Witness ==
    /\ Collected
    /\ Len(progress) = 3
    /\ progress[1].gained = 1
    /\ progress[2].gained = 1
    /\ progress[3].gained = 1
    /\ Keys(batch) = {UrlC, UrlA}
    /\ Keys(all_results) = {UrlA, UrlB, UrlC}

\* C19: with stable_rounds <= 0 and max_scrolls >= 1 the loop is left in its
\* first round, whether or not that round gained URLs, without a scroll or a
\* pause, and the dict returned is the first round's batch.
C19_NonPositiveThresholdOneRound ==
    stable_rounds <= 0 /\ max_scrolls >= 1 =>
        /\ n <= 1
        /\ extractions <= 1
        /\ scrolls = 0
        /\ pauses = 0
        /\ pc = "loop" => n = 0
        /\ Collected =>
               /\ n = 1
               /\ Len(progress) = 1
               /\ all_results = batch
               /\ batch = Extracted(page).results

C19_Witness ==
    /\ pc = "done"
    /\ report # <<>>
    /\ stable_rounds <= 0
    /\ max_scrolls >= 2
    /\ Len(progress) = 1
    /\ progress[1].gained = 2
    /\ progress[1].stable = 0
    /\ scrolls = 0

\* scroll_and_collect used up range(max_scrolls) without a break
Exhausted ==
    Collected /\ max_scrolls >= 1 /\ n = max_scrolls /\ ~Converged

C20_ScrollsWhenExhausted ==
    /\ Collected /\ ~Converged /\ max_scrolls >= 1 => n = max_scrolls
    /\ Exhausted =>
           /\ Len(progress) = max_scrolls
           /\ extractions = max_scrolls
           /\ scrolls = max_scrolls
           /\ pauses = max_scrolls

\* once max_scrolls scrolls are issued nothing is extracted or merged
C20_NothingAfterLastScroll ==
    max_scrolls >= 1 /\ scrolls = max_scrolls =>
        /\ extractions' = extractions
        /\ all_results' = all_results
        /\ batch' = batch
        /\ scrolls' = scrolls

\* C20: a run of the loop that uses up max_scrolls rounds without stable
\* reaching stable_rounds scrolls and pauses after its last extraction too:
\* it has issued max_scrolls scrolls and pauses, and after the last scroll
\* no extraction or merge happens, so what that scroll loads is not in the
\* dict returned.
C20_ExhaustedScrollsEveryRound ==
    /\ []C20_ScrollsWhenExhausted
    /\ [][C20_NothingAfterLastScroll]_vars

C20_Witness ==
    /\ pc = "done"
    /\ report # <<>>
    /\ Exhausted
    /\ max_scrolls = 3
    /\ scrolls = 3
    /\ pauses = 3
    /\ extractions = 3
    /\ LastLine.gained > 0

====
